---- MODULE Spec2Model ----
(***************************************************************************)
(* Declaration source reconstruction (detail::tokenizer::read_source,      *)
(* read_range, the tokenizer constructor and the static helper fixup),     *)
(* specification Spec; further down the interval constraints of            *)
(* bounded_type.hpp (SpecBounded), the token stream helpers (SpecStream)   *)
(* and the source buffer cache (SpecCache).                                *)
(*                                                                         *)
(* A source text is a sequence of one-character strings.  The buffer that  *)
(* the code scans is source.c_str(): the characters of the file followed   *)
(* by one NUL.  Whatever lies in memory after that NUL is not part of the  *)
(* buffer; a read there is undefined behaviour, modelled by letting the    *)
(* memory behind the buffer be any of the samples in Beyond and by the     *)
(* outcome "fault" when a scan runs past the sample as well.               *)
(* assert() is modelled as the active C assert macro: a false condition    *)
(* aborts the process.                                                     *)
(***************************************************************************)
EXTENDS Integers, Sequences, FiniteSets, TLC

VARIABLES cur, file, source, begin_offset, end_offset, children,
          pc, ret, range, source_,
          given, interval, val, val_type, bounded_pc, bounded_ret,
          stream, stream_pos, stream_call, stream_ret,
          cache, guard, loads, caller

\* detail::tokenizer: arguments and results of read_source, read_range and
\* the constructor
tokenizer_vars == <<cur, file, source, begin_offset, end_offset, children,
                    pc, ret, range, source_>>

\* type_safe::constraints::bounded: the template and constructor arguments,
\* the interval constructed from them, the value handed to it, the number of
\* values of that value's type, the member or function called and its result
bounded_vars == <<given, interval, val, val_type, bounded_pc, bounded_ret>>

\* detail::token_stream: the tokens, the position of the current token, the
\* helper called on it and what the helper returned or threw
stream_vars == <<stream, stream_pos, stream_call, stream_ret>>

\* the source buffer cache: the buffer cached for each file key, the holder
\* of each key's guard, the loads made for each key, and every caller of get
cache_vars == <<cache, guard, loads, caller>>

vars == <<tokenizer_vars, bounded_vars, stream_vars, cache_vars>>

(***************************************************************************)
(* Bounds of the enumerated inputs.                                        *)
(***************************************************************************)
MaxLen == 2
MaxNoFileLen == 1

(***************************************************************************)
(* Characters.                                                             *)
(***************************************************************************)
NUL == "NUL"
NL == "\n"
SP == " "

\* std::isspace on the characters that occur in the model
isspace(c) == c \in {SP, NL}

\* the characters every short source text is built from: one of each class
\* the code tells apart (NL is the white space and the end of line)
Sigma == {"x", "}", ";", "(", ")", ">", ",", NL}

RECURSIVE Texts(_)
Texts(n) ==
    IF n = 0 THEN {<<>>}
    ELSE LET shorter == Texts(n - 1)
         IN  shorter \cup {Append(t, c) : t \in {s \in shorter : Len(s) = n - 1}, c \in Sigma}

(***************************************************************************)
(* Cursors.  A cursor carries its libclang kind and, for a template, the   *)
(* kind clang_getTemplateCursorKind reports for it ("NoDeclFound" when the *)
(* cursor is no template).                                                 *)
(***************************************************************************)
TemplateParameterKinds ==
    {"TemplateTypeParameter", "NonTypeTemplateParameter", "TemplateTemplateParameter"}

ClassKinds ==
    {"ClassDecl", "StructDecl", "UnionDecl", "ClassTemplate",
     "ClassTemplatePartialSpecialization"}

\* the kinds clang_isDeclaration accepts, among the kinds of the model
DeclarationKinds ==
    {"FunctionDecl", "FunctionTemplate", "CXXMethod", "VarDecl", "ParmDecl",
     "TypeAliasDecl"} \cup ClassKinds \cup TemplateParameterKinds

Cursor(k, t) == [kind |-> k, templ |-> t]

Cursors ==
    {Cursor(k, "NoDeclFound") :
        k \in (DeclarationKinds \ {"FunctionTemplate", "ClassTemplate",
                                   "ClassTemplatePartialSpecialization"})
              \cup {"MacroDefinition", "CXXBaseSpecifier", "CompoundStmt"}}
    \cup {Cursor("FunctionTemplate", "FunctionDecl"),
          Cursor("FunctionTemplate", "CXXMethod"),
          Cursor("ClassTemplate", "ClassDecl"),
          Cursor("ClassTemplatePartialSpecialization", "ClassDecl")}

clang_getCursorKind(c) == c.kind
clang_getTemplateCursorKind(c) == c.templ
clang_isDeclaration(k) == k \in DeclarationKinds

is_templ_param(c) == clang_getCursorKind(c) \in TemplateParameterKinds

is_function(c) ==
    \/ clang_getCursorKind(c) = "FunctionDecl"
    \/ clang_getTemplateCursorKind(c) = "FunctionDecl"

is_class(c) == clang_getCursorKind(c) \in ClassKinds

(***************************************************************************)
(* The children of a cursor, as detail::visit_children presents them: a    *)
(* sequence of [kind, begin], begin being the offset get_range reports for *)
(* the child.  The callback of fixup stops at the first compound           *)
(* statement or try block; body_begin stays 0 when there is none.          *)
(***************************************************************************)
Child(k, b) == [kind |-> k, begin |-> b]

RECURSIVE visit_children(_)
visit_children(ch) ==
    IF ch = <<>> THEN 0
    ELSE IF Head(ch).kind \in {"CompoundStmt", "CXXTryStmt"} THEN Head(ch).begin
    ELSE visit_children(Tail(ch))

(***************************************************************************)
(* Memory.  mem is source.c_str() followed by what lies behind it, a       *)
(* pointer is an offset into mem (0 is the first character of the file).   *)
(***************************************************************************)
Deref(mem, p) == mem[p + 1]
Mapped(mem, p) == p < Len(mem)
back(result) == result[Len(result)]
pop_back(result) == SubSeq(result, 1, Len(result) - 1)

\* while (std::isspace(*ptr)) ++ptr;
RECURSIVE skip_space(_, _)
skip_space(mem, p) ==
    IF Mapped(mem, p) /\ isspace(Deref(mem, p)) THEN skip_space(mem, p + 1) ELSE p

Scan(text, p, fault) == [text |-> text, ptr |-> p, fault |-> fault]

\* for (auto bracket_count = 1; bracket_count != 0; ++ptr) { ... result += *ptr; }
RECURSIVE copy_group(_, _, _, _)
copy_group(mem, p, result, bracket_count) ==
    IF bracket_count = 0 THEN Scan(result, p, FALSE)
    ELSE IF ~Mapped(mem, p) THEN Scan(result, p, TRUE)
    ELSE LET c == Deref(mem, p)
             n == IF c = "(" THEN bracket_count + 1
                  ELSE IF c = ")" THEN bracket_count - 1
                  ELSE bracket_count
         IN  copy_group(mem, p + 1, Append(result, c), n)

\* while (*ptr != ';') { result += *ptr; ++ptr; }
RECURSIVE copy_until_semicolon(_, _, _)
copy_until_semicolon(mem, p, result) ==
    IF ~Mapped(mem, p) THEN Scan(result, p, TRUE)
    ELSE IF Deref(mem, p) = ";" THEN Scan(result, p, FALSE)
    ELSE copy_until_semicolon(mem, p + 1, Append(result, Deref(mem, p)))

\* while (*ptr != '\n' && *ptr) { result += *ptr; ++ptr; }
RECURSIVE copy_until_newline(_, _, _)
copy_until_newline(mem, p, result) ==
    IF ~Mapped(mem, p) THEN Scan(result, p, TRUE)
    ELSE IF Deref(mem, p) = NL \/ Deref(mem, p) = NUL THEN Scan(result, p, FALSE)
    ELSE copy_until_newline(mem, p + 1, Append(result, Deref(mem, p)))

\* close_macro with a scan that stops one character before the first
RECURSIVE close_macro_stops_short(_, _)
close_macro_stops_short(result, i) ==
    IF i <= 1 THEN result
    ELSE IF result[i] = ")" THEN result
    ELSE IF result[i] = "(" THEN Append(result, ")")
    ELSE close_macro_stops_short(result, i - 1)

\* for (auto iter = result.rbegin(); iter != result.rend(); ++iter) ...
RECURSIVE close_macro(_, _)
close_macro(result, i) ==
    IF i = 0 THEN result
    ELSE IF result[i] = ")" THEN result
    ELSE IF result[i] = "(" THEN Append(result, ")")
    ELSE close_macro(result, i - 1)

(***************************************************************************)
(* What a call produces.  status: "ok" (a text is returned), "assert" (an  *)
(* assertion failed, the process aborts) or "fault" (a read behind the     *)
(* mapped memory: the undefined behaviour ends in a crash or never ends).  *)
(* rules: the fixup branches taken, by the letter of the rule.  asserts:   *)
(* the assertions evaluated.  last: the highest offset of the buffer read  *)
(* (or tried), -1 when nothing was read.                                   *)
(***************************************************************************)
Out(status, text, rules, asserts, last) ==
    [status |-> status, text |-> text, rules |-> rules, asserts |-> asserts,
     last |-> last]

NoOut == Out("none", <<>>, {}, {}, -1)

Max(a, b) == IF a >= b THEN a ELSE b

\* declaration_only with the assertion weakened to body_begin >= begin_offset
declaration_only_weak_assert(c, result, begin, ch) ==
    IF is_function(c) /\ back(result) = "}"
    THEN LET body_begin == visit_children(ch)
             actual_size == body_begin - begin
         IN  IF ~(body_begin >= begin)
             THEN Out("assert", <<>>, {"a"}, {"body_begin > begin_offset"}, -1)
             ELSE IF actual_size > Len(result)
             THEN Out("fault", <<>>, {"a"}, {"body_begin > begin_offset"}, -1)
             ELSE Out("ok", Append(SubSeq(result, 1, actual_size), ";"), {"a"},
                      {"body_begin > begin_offset"}, -1)
    ELSE IF is_class(c) /\ back(result) # ";"
    THEN Out("ok", Append(result, ";"), {"b"}, {}, -1)
    ELSE Out("ok", result, {}, {}, -1)

\* fixup, the first if/else-if: shrink a function to its declaration, close a class
declaration_only(c, result, begin, ch) ==
    IF is_function(c) /\ back(result) = "}"
    THEN LET body_begin == visit_children(ch)
             actual_size == body_begin - begin
         IN  IF ~(body_begin > begin)
             THEN Out("assert", <<>>, {"a"}, {"body_begin > begin_offset"}, -1)
             ELSE IF actual_size > Len(result)
             THEN Out("fault", <<>>, {"a"}, {"body_begin > begin_offset"}, -1)
             ELSE Out("ok", Append(SubSeq(result, 1, actual_size), ";"), {"a"},
                      {"body_begin > begin_offset"}, -1)
    ELSE IF is_class(c) /\ back(result) # ";"
    THEN Out("ok", Append(result, ";"), {"b"}, {}, -1)
    ELSE Out("ok", result, {}, {}, -1)

\* munch_fixup that takes only '>' for the end of a parameter, not ','
munch_fixup_comma_munched(mem, ptr, result) ==
    LET p == skip_space(mem, ptr)
        g == IF Deref(mem, p) = "("
             THEN copy_group(mem, p + 1, Append(result, "("), 1)
             ELSE Scan(result, p, FALSE)
    IN  IF g.fault \/ ~Mapped(mem, g.ptr)
        THEN Out("fault", <<>>, {"c"}, {}, g.ptr)
        ELSE LET next == Deref(mem, g.ptr)
             IN  IF next # ">" /\ back(g.text) = ">"
                 THEN Out("ok", pop_back(g.text), {"c"}, {}, g.ptr)
                 ELSE Out("ok", g.text, {"c"}, {}, g.ptr)

\* fixup, the template parameter branch: the dropped group and maximal munch
munch_fixup(mem, ptr, result) ==
    LET p == skip_space(mem, ptr)
        g == IF Deref(mem, p) = "("
             THEN copy_group(mem, p + 1, Append(result, "("), 1)
             ELSE Scan(result, p, FALSE)
    IN  IF g.fault \/ ~Mapped(mem, g.ptr)
        THEN Out("fault", <<>>, {"c"}, {}, g.ptr)
        ELSE LET next == Deref(mem, g.ptr)
             IN  IF next # ">" /\ next # "," /\ back(g.text) = ">"
                 THEN Out("ok", pop_back(g.text), {"c"}, {}, g.ptr)
                 ELSE Out("ok", g.text, {"c"}, {}, g.ptr)

\* extend_to_semicolon that leaves the ';' it stops at out of the text
extend_to_semicolon_unterminated(mem, ptr, result, rule) ==
    LET s == copy_until_semicolon(mem, ptr, result)
    IN  IF s.fault THEN Out("fault", <<>>, {rule}, {}, s.ptr)
        ELSE Out("ok", s.text, {rule}, {}, s.ptr)

\* fixup, the function and type alias branches: extend to the semicolon
extend_to_semicolon(mem, ptr, result, rule) ==
    LET s == copy_until_semicolon(mem, ptr, result)
    IN  IF s.fault THEN Out("fault", <<>>, {rule}, {}, s.ptr)
        ELSE Out("ok", Append(s.text, ";"), {rule}, {}, s.ptr)

\* fixup, the last branch: read until the next line
extend_to_newline(mem, ptr, result) ==
    LET s == copy_until_newline(mem, ptr, result)
    IN  IF s.fault THEN Out("fault", <<>>, {"g"}, {}, s.ptr)
        ELSE Out("ok", s.text, {"g"}, {}, s.ptr)

\* fixup, the second if/else-if chain
tail_fixup(c, mem, ptr, result) ==
    IF is_templ_param(c) THEN munch_fixup(mem, ptr, result)
    ELSE IF clang_getCursorKind(c) = "MacroDefinition"
    THEN Out("ok", close_macro(result, Len(result)), {"d"}, {}, -1)
    ELSE IF is_function(c) /\ back(result) # ";"
    THEN extend_to_semicolon(mem, ptr, result, "e")
    ELSE IF clang_getCursorKind(c) = "TypeAliasDecl" /\ back(result) # ";"
    THEN extend_to_semicolon(mem, ptr, result, "f")
    ELSE IF /\ clang_isDeclaration(clang_getCursorKind(c))
            /\ clang_getCursorKind(c) # "ParmDecl"
            /\ clang_getCursorKind(c) # "TemplateTypeParameter"
            /\ clang_getCursorKind(c) # "NonTypeTemplateParameter"
            /\ clang_getCursorKind(c) # "TemplateTemplateParameter"
            /\ clang_getCursorKind(c) # "CXXBaseSpecifier"
    THEN extend_to_newline(mem, ptr, result)
    ELSE Out("ok", result, {}, {}, -1)

fixup(c, mem, ptr, result, begin, ch) ==
    LET d == declaration_only(c, result, begin, ch)
    IN  IF d.status # "ok" THEN d
        ELSE LET t == tail_fixup(c, mem, ptr, d.text)
             IN  Out(t.status, t.text, d.rules \cup t.rules,
                     d.asserts \cup t.asserts, t.last)

\* read_source with the assertions before the test for no file
read_source_asserts_first(c, f, src, begin, end, ch, beyond) ==
    IF f # "tu" THEN Out("assert", <<>>, {}, {"clang_File_isEqual"}, -1)
    ELSE IF ~(end > begin)
    THEN Out("assert", <<>>, {},
             {"clang_File_isEqual", "end_offset > begin_offset"}, -1)
    ELSE LET mem == src \o <<NUL>> \o beyond
             result == SubSeq(src, begin + 1, end)
             r == fixup(c, mem, end, result, begin, ch)
         IN  Out(r.status, r.text, r.rules,
                 r.asserts \cup {"clang_File_isEqual", "end_offset > begin_offset"},
                 Max(r.last, end - 1))

\* detail::tokenizer::read_source; f is what get_range returns, "tu" the file
\* of the translation unit, beyond what lies in memory behind the buffer
read_source(c, f, src, begin, end, ch, beyond) ==
    IF f = "null" THEN Out("ok", <<>>, {}, {}, -1)
    ELSE IF f # "tu" THEN Out("assert", <<>>, {}, {"clang_File_isEqual"}, -1)
    ELSE IF ~(end > begin)
    THEN Out("assert", <<>>, {},
             {"clang_File_isEqual", "end_offset > begin_offset"}, -1)
    ELSE LET mem == src \o <<NUL>> \o beyond
             result == SubSeq(src, begin + 1, end)
             r == fixup(c, mem, end, result, begin, ch)
         IN  Out(r.status, r.text, r.rules,
                 r.asserts \cup {"clang_File_isEqual", "end_offset > begin_offset"},
                 Max(r.last, end - 1))

(***************************************************************************)
(* Inputs: every short text over Sigma with every pair of offsets into it, *)
(* and the declarations below, with the extents libclang reports for them. *)
(***************************************************************************)
\* int f(int x) { return x; }\n
SrcFunctionBody ==
    <<"i", "n", "t", SP, "f", "(", "i", "n", "t", SP, "x", ")", SP, "{",
      SP, "r", "e", "t", "u", "r", "n", SP, "x", ";", SP, "}", NL>>

\* void f() {} void g() {}\n
SrcTwoFunctions ==
    <<"v", "o", "i", "d", SP, "f", "(", ")", SP, "{", "}", SP, "v", "o",
      "i", "d", SP, "g", "(", ")", SP, "{", "}", NL>>

\* struct S { int x; };\n
SrcStruct ==
    <<"s", "t", "r", "u", "c", "t", SP, "S", SP, "{", SP, "i", "n", "t",
      SP, "x", ";", SP, "}", ";", NL>>

\* template <class T> class C {};\n
SrcClassTemplate ==
    <<"t", "e", "m", "p", "l", "a", "t", "e", SP, "<", "c", "l", "a", "s",
      "s", SP, "T", ">", SP, "c", "l", "a", "s", "s", SP, "C", SP, "{",
      "}", ";", NL>>

\* template <class T = A<B>> struct S;\n
SrcMunch ==
    <<"t", "e", "m", "p", "l", "a", "t", "e", SP, "<", "c", "l", "a", "s",
      "s", SP, "T", SP, "=", SP, "A", "<", "B", ">", ">", SP, "s", "t",
      "r", "u", "c", "t", SP, "S", ";", NL>>

\* template <class T = A<B>>> struct S;\n
SrcStrayAngle ==
    <<"t", "e", "m", "p", "l", "a", "t", "e", SP, "<", "c", "l", "a", "s",
      "s", SP, "T", SP, "=", SP, "A", "<", "B", ">", ">", ">", SP, "s",
      "t", "r", "u", "c", "t", SP, "S", ";", NL>>

\* template <int N = decltype(f(x))> struct S;\n
SrcDecltype ==
    <<"t", "e", "m", "p", "l", "a", "t", "e", SP, "<", "i", "n", "t", SP,
      "N", SP, "=", SP, "d", "e", "c", "l", "t", "y", "p", "e", "(", "f",
      "(", "x", ")", ")", ">", SP, "s", "t", "r", "u", "c", "t", SP, "S",
      ";", NL>>

\* template <class T = A<B>, class U> struct S;\n
SrcTwoParams ==
    <<"t", "e", "m", "p", "l", "a", "t", "e", SP, "<", "c", "l", "a", "s",
      "s", SP, "T", SP, "=", SP, "A", "<", "B", ">", ",", SP, "c", "l",
      "a", "s", "s", SP, "U", ">", SP, "s", "t", "r", "u", "c", "t", SP,
      "S", ";", NL>>

\* #define M foo(bar)\n
\* a class whose terminator is the last character of the file
SrcStructAtEnd ==
    <<"s", "t", "r", "u", "c", "t", SP, "S", SP, "{", "}", ";">>

SrcMacro ==
    <<"#", "d", "e", "f", "i", "n", "e", SP, "M", SP, "f", "o", "o", "(",
      "b", "a", "r", ")", NL>>

\* #define M f(g(x))\n
SrcMacroNested ==
    <<"#", "d", "e", "f", "i", "n", "e", SP, "M", SP, "f", "(", "g", "(",
      "x", ")", ")", NL>>

\* void f() = delete;\n
SrcDeleted ==
    <<"v", "o", "i", "d", SP, "f", "(", ")", SP, "=", SP, "d", "e", "l",
      "e", "t", "e", ";", NL>>

\* void f() = delete
SrcDeletedNoEnd ==
    <<"v", "o", "i", "d", SP, "f", "(", ")", SP, "=", SP, "d", "e", "l",
      "e", "t", "e">>

\* using T = int;\n
SrcAlias ==
    <<"u", "s", "i", "n", "g", SP, "T", SP, "=", SP, "i", "n", "t", ";", NL>>

\* int v = 1; // c\n
SrcVar ==
    <<"i", "n", "t", SP, "v", SP, "=", SP, "1", ";", SP, "/", "/", SP, "c",
      NL>>

\* void f(); // c\n
SrcDeclared ==
    <<"v", "o", "i", "d", SP, "f", "(", ")", ";", SP, "/", "/", SP, "c", NL>>

Files == {"tu", "null", "other"}

\* samples of the memory behind the buffer
Beyond == {<<>>, <<";">>, <<")">>, <<"x", ")", ";">>}

Input(c, f, src, begin, end, ch) ==
    [cur |-> c, file |-> f, source |-> src, begin |-> begin, end |-> end,
     children |-> ch]

\* the children of a function with a body that begins at one of the offsets
\* before the end of the function; a cursor that fixup asks no child of has none
ChildSeqs(c, end) ==
    IF is_function(c)
    THEN {<<>>, <<Child("ParmDecl", 0)>>}
         \cup {<<Child("ParmDecl", 0), Child("CompoundStmt", b)>> : b \in 0..(end - 1)}
         \cup {<<Child("CXXTryStmt", b)>> : b \in 0..(end - 1)}
    ELSE {<<>>}

Examples ==
    {Input(Cursor("FunctionDecl", "NoDeclFound"), "tu", SrcFunctionBody, 0, 26,
           <<Child("ParmDecl", 6), Child("CompoundStmt", 13)>>),
     Input(Cursor("FunctionDecl", "NoDeclFound"), "tu", SrcTwoFunctions, 0, 11,
           <<Child("CompoundStmt", 9)>>),
     Input(Cursor("StructDecl", "NoDeclFound"), "tu", SrcStruct, 0, 19, <<>>),
     Input(Cursor("ClassTemplate", "ClassDecl"), "tu", SrcClassTemplate, 0, 29, <<>>),
     Input(Cursor("TemplateTypeParameter", "NoDeclFound"), "tu", SrcMunch, 10, 25, <<>>),
     Input(Cursor("TemplateTypeParameter", "NoDeclFound"), "tu", SrcStrayAngle, 10, 25,
           <<>>),
     Input(Cursor("NonTypeTemplateParameter", "NoDeclFound"), "tu", SrcDecltype, 10, 26,
           <<>>),
     Input(Cursor("TemplateTypeParameter", "NoDeclFound"), "tu", SrcTwoParams, 10, 24,
           <<>>),
     Input(Cursor("MacroDefinition", "NoDeclFound"), "tu", SrcMacro, 8, 17, <<>>),
     Input(Cursor("MacroDefinition", "NoDeclFound"), "tu", SrcMacroNested, 8, 15, <<>>),
     Input(Cursor("MacroDefinition", "NoDeclFound"), "tu", SrcMacroNested, 8, 16, <<>>),
     Input(Cursor("FunctionDecl", "NoDeclFound"), "tu", SrcDeleted, 0, 8, <<>>),
     Input(Cursor("FunctionDecl", "NoDeclFound"), "tu", SrcDeletedNoEnd, 0, 8, <<>>),
     Input(Cursor("TypeAliasDecl", "NoDeclFound"), "tu", SrcAlias, 0, 13, <<>>),
     Input(Cursor("VarDecl", "NoDeclFound"), "tu", SrcVar, 0, 9, <<>>),
     Input(Cursor("FunctionDecl", "NoDeclFound"), "tu", SrcDeclared, 0, 9, <<>>),
     Input(Cursor("StructDecl", "NoDeclFound"), "tu", SrcStructAtEnd, 0, 11, <<>>)}

\* the short texts of the translation unit's file, with every cursor and
\* every pair of offsets
ShortInit ==
    /\ source \in Texts(MaxLen)
    /\ cur \in Cursors
    /\ file = "tu"
    /\ begin_offset \in 0..Len(source)
    /\ end_offset \in 0..Len(source)
    /\ children \in ChildSeqs(cur, end_offset)

\* a cursor that get_range finds no file for, or another file than the
\* translation unit's
NoFileInit ==
    /\ source \in Texts(MaxNoFileLen)
    /\ cur \in Cursors
    /\ file \in Files \ {"tu"}
    /\ begin_offset \in 0..Len(source)
    /\ end_offset \in 0..Len(source)
    /\ children \in ChildSeqs(cur, end_offset)

ExampleInit ==
    \E i \in Examples :
        /\ cur = i.cur
        /\ file = i.file
        /\ source = i.source
        /\ begin_offset = i.begin
        /\ end_offset = i.end
        /\ children = i.children

\* no interval has been constructed
NoBounded ==
    /\ given = <<>>
    /\ interval = <<>>
    /\ val = 0
    /\ val_type = 0
    /\ bounded_pc = "none"
    /\ bounded_ret = <<>>

\* no token stream has been made
NoStream ==
    /\ stream = <<>>
    /\ stream_pos = 0
    /\ stream_call = <<>>
    /\ stream_ret = <<>>

\* no source buffer is asked for
NoCache ==
    /\ cache = <<>>
    /\ guard = <<>>
    /\ loads = <<>>
    /\ caller = <<>>

Init ==
    /\ ExampleInit \/ ShortInit \/ NoFileInit
    /\ pc = "start"
    /\ ret = NoOut
    /\ range = <<>>
    /\ source_ = <<>>
    /\ NoBounded
    /\ NoStream
    /\ NoCache

(***************************************************************************)
(* The operations.                                                         *)
(***************************************************************************)
inputs == <<cur, file, source, begin_offset, end_offset, children>>

\* std::string detail::tokenizer::read_source(tu, cur)
ReadSource ==
    /\ pc = "start"
    /\ \E beyond \in Beyond :
          ret' = read_source(cur, file, source, begin_offset, end_offset, children,
                             beyond)
    /\ pc' = "read_source"
    /\ UNCHANGED <<inputs, range, source_, bounded_vars, stream_vars, cache_vars>>

\* CXFile detail::tokenizer::read_range(tu, cur, begin_offset, end_offset)
ReadRange ==
    /\ pc = "start"
    /\ \E beyond \in Beyond :
          LET r == read_source(cur, file, source, begin_offset, end_offset, children,
                               beyond)
          IN  /\ ret' = r
              /\ range' = IF r.status = "ok"
                          THEN [file |-> file, begin |-> begin_offset,
                                end |-> begin_offset + Len(r.text)]
                          ELSE <<>>
    /\ pc' = "read_range"
    /\ UNCHANGED <<inputs, source_, bounded_vars, stream_vars, cache_vars>>

\* detail::tokenizer::tokenizer(tu, cur)
Tokenizer ==
    /\ pc = "start"
    /\ \E beyond \in Beyond :
          LET r == read_source(cur, file, source, begin_offset, end_offset, children,
                               beyond)
          IN  /\ ret' = r
              /\ source_' = IF r.status = "ok" THEN Append(r.text, NL) ELSE <<>>
    /\ pc' = "tokenizer"
    /\ UNCHANGED <<inputs, range, bounded_vars, stream_vars, cache_vars>>

Next == ReadSource \/ ReadRange \/ Tokenizer

Spec == Init /\ [][Next]_vars

(***************************************************************************)
(* The properties.  slice is the text of the reported extent, tail what    *)
(* follows it in the file.                                                 *)
(***************************************************************************)
slice == SubSeq(source, begin_offset + 1, end_offset)
tail == SubSeq(source, end_offset + 1, Len(source))

Called == pc # "start"
Resolved == file = "tu" /\ end_offset > begin_offset

Last(t) == t[Len(t)]
Count(t, c) == Cardinality({i \in 1..Len(t) : t[i] = c})
Prefix(t, n) == SubSeq(t, 1, n)
Suffix(t, n) == SubSeq(t, n + 1, Len(t))

\* the number of characters of t before the first c (Len(t) when t has no c)
Before(t, c) ==
    IF \E i \in 1..Len(t) : t[i] = c
    THEN (CHOOSE i \in 1..Len(t) : t[i] = c /\ \A j \in 1..(i - 1) : t[j] # c) - 1
    ELSE Len(t)

\* t without the white space at its end
Trimmed(t) ==
    LET keep == {n \in 0..Len(t) : \A i \in (n + 1)..Len(t) : isspace(t[i])}
    IN  Prefix(t, CHOOSE n \in keep : \A m \in keep : n <= m)

\* the offset of the first compound statement or try block among the children,
\* 0 when there is none
BodySplit ==
    LET bodies == {i \in 1..Len(children) :
                      children[i].kind \in {"CompoundStmt", "CXXTryStmt"}}
    IN  IF bodies = {} THEN 0
        ELSE children[CHOOSE i \in bodies : \A j \in bodies : i <= j].begin

FunctionWithBody == Resolved /\ is_function(cur) /\ Last(slice) = "}"

\* C1: a function whose slice ends with the body marker and whose body child
\* begins after the declaration's begin comes back without its body, as the
\* text up to the parameter list (or trailing return type) followed by exactly
\* one ';', whatever the tail: "int f(int x) { return x; }" gives "int f(int x);".
C1_BodyCutToDeclaration ==
    (Called /\ FunctionWithBody /\ BodySplit > begin_offset)
        => /\ ret.status = "ok"
           /\ ret.text = Append(Trimmed(Prefix(slice, BodySplit - begin_offset)), ";")

EndsWithOneTerminator(t) ==
    /\ Len(t) >= 1
    /\ Last(t) = ";"
    /\ Len(t) >= 2 => t[Len(t) - 1] # ";"

\* C2: the text of a class, struct, union, class template or partial
\* specialization ends with exactly one ';', whatever the slice and the tail
\* (a slice that itself ends in two terminators aside).
C2_ClassEndsWithOneTerminator ==
    (Called /\ Resolved /\ is_class(cur)
        /\ ~(Len(slice) >= 2 /\ Last(slice) = ";" /\ slice[Len(slice) - 1] = ";"))
        => /\ ret.status = "ok"
           /\ EndsWithOneTerminator(ret.text)

\* the kinds rule g is stated for: a declaration that is no function, class,
\* template parameter, type alias, parameter (and no macro or base specifier)
OtherDeclaration ==
    /\ clang_isDeclaration(cur.kind)
    /\ ~is_function(cur)
    /\ ~is_class(cur)
    /\ ~is_templ_param(cur)
    /\ cur.kind \notin {"MacroDefinition", "TypeAliasDecl", "ParmDecl", "CXXBaseSpecifier"}

\* the one rule the priority order a-g selects for the cursor and its slice
SelectedRules ==
    IF is_function(cur) /\ Last(slice) = "}" THEN {"a"}
    ELSE IF is_class(cur) /\ Last(slice) # ";" THEN {"b"}
    ELSE IF is_templ_param(cur) THEN {"c"}
    ELSE IF cur.kind = "MacroDefinition" THEN {"d"}
    ELSE IF is_function(cur) /\ Last(slice) # ";" THEN {"e"}
    ELSE IF cur.kind = "TypeAliasDecl" /\ Last(slice) # ";" THEN {"f"}
    ELSE IF OtherDeclaration THEN {"g"}
    ELSE {}

\* C3: every call of fixup applies exactly one of the rules a-g, the first in
\* priority order that matches, never two; when none matches the slice comes
\* back unchanged.
C3_ExactlyOneRule ==
    (Called /\ Resolved)
        => /\ ret.rules = SelectedRules
           /\ (SelectedRules = {} => ret.status = "ok" /\ ret.text = slice)

\* the tail behind its leading white space
TailText == Suffix(tail, CHOOSE n \in 0..Len(tail) :
                            /\ \A i \in 1..n : isspace(tail[i])
                            /\ n < Len(tail) => ~isspace(tail[n + 1]))

\* the length of the parenthesized group TailText begins with: the first
\* prefix with as many ')' as '(' (0 when there is no such group)
GroupLen ==
    LET closed == {n \in 1..Len(TailText) :
                      Count(Prefix(TailText, n), "(") = Count(Prefix(TailText, n), ")")}
    IN  IF Len(TailText) = 0 \/ TailText[1] # "(" \/ closed = {} THEN 0
        ELSE CHOOSE n \in closed : \A m \in closed : n <= m

GroupOpens == Len(TailText) >= 1 /\ TailText[1] = "("

\* the character behind the group (behind the white space when there is no
\* group); NUL at the end of the file
NextChar ==
    IF GroupLen < Len(TailText) THEN TailText[GroupLen + 1] ELSE NUL

\* the nesting depth of angle brackets at the end of t, a '>' that closes
\* nothing leaving it at 0
RECURSIVE AngleDepth(_)
AngleDepth(t) ==
    IF t = <<>> THEN 0
    ELSE LET d == AngleDepth(Prefix(t, Len(t) - 1))
         IN  IF Last(t) = "<" THEN d + 1
             ELSE IF Last(t) = ">" THEN (IF d > 0 THEN d - 1 ELSE 0)
             ELSE d

\* the last character of t is a '>' that closes nothing opened in t
EndsUnmatched(t) ==
    /\ Len(t) >= 1
    /\ Last(t) = ">"
    /\ AngleDepth(Prefix(t, Len(t) - 1)) = 0

TemplateParameter == Resolved /\ is_templ_param(cur)

MacroDefinition == Resolved /\ cur.kind = "MacroDefinition"

\* the last parenthesis of t is an opening one
OpensLast(t) ==
    \E i \in 1..Len(t) :
        /\ t[i] = "("
        /\ \A j \in (i + 1)..Len(t) : t[j] \notin {"(", ")"}

\* C5: for a macro definition the text is the slice with exactly one ')'
\* appended when, read backward, a '(' comes before any ')', however many '('
\* are open; it is the slice itself when a ')' comes first or there is no
\* parenthesis; nothing of the tail is read or copied.
C5_MacroOneCloser ==
    (Called /\ MacroDefinition)
        => /\ ret.status = "ok"
           /\ ret.rules = {"d"}
           /\ ret.text = IF OpensLast(slice) THEN Append(slice, ")") ELSE slice
           /\ ret.last = end_offset - 1

\* reached: two '(' are open in the slice "M f(g(x" and one ')' was appended
C5_Witness_NestedOpen ==
    /\ pc = "read_source"
    /\ MacroDefinition
    /\ source = SrcMacroNested
    /\ Count(slice, "(") = 2
    /\ Count(slice, ")") = 0
    /\ ret.text = Append(slice, ")")

\* a function or type alias whose slice lacks its terminator (rules e and f)
Unterminated ==
    /\ Resolved
    /\ \/ is_function(cur) /\ Last(slice) \notin {";", "}"}
       \/ cur.kind = "TypeAliasDecl" /\ Last(slice) # ";"

\* C6: for a function or type alias whose slice ends neither in ';' (nor, for
\* a function, in the body marker) and whose tail holds a ';', the text is the
\* slice followed by the tail up to and including its first ';', and nothing
\* behind that ';' is read.
C6_CopiedThroughTerminator ==
    (Called /\ Unterminated /\ Count(tail, ";") > 0)
        => /\ ret.status = "ok"
           /\ ret.text = slice \o Prefix(tail, Before(tail, ";") + 1)
           /\ ret.last = end_offset + Before(tail, ";")

\* reached: "void f()" was extended to "void f() = delete;"
C6_Witness_Deleted ==
    /\ pc = "read_source"
    /\ Unterminated
    /\ source = SrcDeleted
    /\ ret.status = "ok"
    /\ Len(ret.text) = Len(slice) + 10
    /\ Last(ret.text) = ";"

\* C7: the copy to the end of the line (rule g) is applied to no function,
\* class, template parameter, macro, type alias, parameter or base specifier;
\* for any other declaration the text is the slice followed by the tail up to
\* its first newline (all of it when it has none); a function or type alias
\* whose slice already ends in ';' gets nothing of the tail.
C7_LineCopyOnlyForOtherKinds ==
    (Called /\ Resolved)
        => /\ "g" \in ret.rules => OtherDeclaration
           /\ OtherDeclaration
                => ret.status = "ok" /\ ret.text = slice \o Prefix(tail, Before(tail, NL))
           /\ ((is_function(cur) \/ cur.kind = "TypeAliasDecl") /\ Last(slice) = ";")
                => ret.status = "ok" /\ ret.text = slice

\* C8: every forward scan over the tail stops without reading behind the
\* buffer (its last character is the NUL at offset Len(source)), also when the
\* tail has no ';', no newline or no closing ')'.
C8_ScansStayInBuffer ==
    Called => ret.status # "fault" /\ ret.last <= Len(source)

\* C9: when get_range returns a file and end_offset <= begin_offset,
\* read_source, and read_range and the constructor through it, end in a failed
\* assertion and return nothing; when rule a applies and the body's offset is
\* not behind begin_offset (0 when there is no body child), fixup ends in a
\* failed assertion and truncates nothing.
C9_FaultsAbort ==
    (Called /\ ( \/ file # "null" /\ end_offset <= begin_offset
                 \/ FunctionWithBody /\ BodySplit <= begin_offset ))
        => /\ ret.status = "assert"
           /\ ret.text = <<>>
           /\ range = <<>>
           /\ source_ = <<>>

\* reached: a function with a body and no body child, begin_offset being 0
C9_Witness_NoBodyChild ==
    /\ pc = "read_source"
    /\ FunctionWithBody
    /\ begin_offset = 0
    /\ children = <<Child("ParmDecl", 0)>>
    /\ ret.status = "assert"
    /\ "body_begin > begin_offset" \in ret.asserts

\* C10: with no file for the cursor read_source returns the empty text as a
\* result: no rule is applied, no assertion evaluated, the buffer not read,
\* whatever the kind and the offsets.
C10_NoFileGivesEmptyText ==
    (Called /\ file = "null")
        => /\ ret.status = "ok"
           /\ ret.text = <<>>
           /\ ret.rules = {}
           /\ ret.asserts = {}
           /\ ret.last = -1

\* reached: no file for a function whose offsets are inverted
C10_Witness_NoFile ==
    /\ pc = "read_source"
    /\ file = "null"
    /\ is_function(cur)
    /\ end_offset < begin_offset
    /\ ret.status = "ok"
    /\ ret.text = <<>>

\* C17: the range read_range reports starts at the begin offset get_range
\* gave and ends at that offset plus the length of the text read_source
\* returns for the same cursor; whenever a file is found for the cursor it is
\* a range into the source buffer, begin_offset < end_offset <= length of the
\* buffer, for every kind, slice and tail, a slice that ends where the buffer
\* ends included.
C17_RangeWithinBuffer ==
    (pc = "read_range" /\ range # <<>>)
        => /\ range.begin = begin_offset
           /\ range.end = begin_offset + Len(ret.text)
           /\ file # "null"
                => /\ range.begin < range.end
                   /\ range.end <= Len(source)

(***************************************************************************)
(* type_safe::constraints::bounded, clamp and clamping_verifier            *)
(* (bounded_type.hpp).  T is an unsigned type with the values 0..MaxBound; *)
(* the value handed to clamp is of a type U that is T or a narrower        *)
(* unsigned type, to which static_cast converts modulo its number of       *)
(* values.                                                                 *)
(***************************************************************************)
MaxBound == 3

T == 0..MaxBound

\* number of values of the narrower type U
Narrow == 2

\* static_cast<U>(x), U an unsigned type with n values
static_cast(n, x) == x % n

less(bound, u) == u < bound
less_equal(bound, u) == u <= bound
greater(bound, u) == u > bound
greater_equal(bound, u) == u >= bound

open == FALSE
closed == TRUE

upper_bound_t(Inclusive, bound, u) ==
    IF Inclusive THEN less_equal(bound, u) ELSE less(bound, u)

lower_bound_t_exclusive(Inclusive, bound, u) == greater(bound, u)

lower_bound_t(Inclusive, bound, u) ==
    IF Inclusive THEN greater_equal(bound, u) ELSE greater(bound, u)

\* bounded(U1&& lower, U2&& upper) : Lower(lower), Upper(upper)
bounded(LowerInclusive, UpperInclusive, lower, upper) ==
    [LowerInclusive |-> LowerInclusive, UpperInclusive |-> UpperInclusive,
     Lower |-> lower, Upper |-> upper]

get_lower_bound(b) == b.Lower
get_upper_bound(b) == b.Upper

\* bool bounded::operator()(const U& u) const
call(b, u) ==
    /\ lower_bound_t(b.LowerInclusive, get_lower_bound(b), u)
    /\ upper_bound_t(b.UpperInclusive, get_upper_bound(b), u)

is_closed_interval(b) == b.LowerInclusive = closed /\ b.UpperInclusive = closed
is_open_interval(b) == b.LowerInclusive = open /\ b.UpperInclusive = open

\* void clamp(const closed_interval<T>& interval, U& val): the new val
clamp(b, v, n) ==
    IF v < get_lower_bound(b) THEN static_cast(n, get_lower_bound(b))
    ELSE IF v > get_upper_bound(b) THEN static_cast(n, get_upper_bound(b))
    ELSE v

\* clamping_verifier::verify(Value& val, const closed_interval<T>& interval)
verify(v, b, n) == clamp(b, v, n)

NoTokenizer ==
    /\ cur = <<>>
    /\ file = "null"
    /\ source = <<>>
    /\ begin_offset = 0
    /\ end_offset = 0
    /\ children = <<>>
    /\ pc = "none"
    /\ ret = NoOut
    /\ range = <<>>
    /\ source_ = <<>>

\* the template arguments and the two constructor arguments, any value of
\* either type
BoundedInit ==
    /\ NoTokenizer
    /\ NoStream
    /\ NoCache
    /\ given \in [LowerInclusive : BOOLEAN, UpperInclusive : BOOLEAN,
                  lower : T, upper : T]
    /\ interval = <<>>
    /\ val_type \in {MaxBound + 1, Narrow}
    /\ val \in 0..(val_type - 1)
    /\ bounded_pc = "construct"
    /\ bounded_ret = <<>>

\* bounded<T, LowerInclusive, UpperInclusive>(lower, upper)
Construct ==
    /\ bounded_pc = "construct"
    /\ interval' = bounded(given.LowerInclusive, given.UpperInclusive,
                           given.lower, given.upper)
    /\ bounded_pc' = "constructed"
    /\ UNCHANGED <<tokenizer_vars, stream_vars, cache_vars, given, val, val_type, bounded_ret>>

\* interval(val)
Call ==
    /\ bounded_pc = "constructed"
    /\ bounded_ret' = call(interval, val)
    /\ bounded_pc' = "operator()"
    /\ UNCHANGED <<tokenizer_vars, stream_vars, cache_vars, given, interval, val, val_type>>

GetLowerBound ==
    /\ bounded_pc = "constructed"
    /\ bounded_ret' = get_lower_bound(interval)
    /\ bounded_pc' = "get_lower_bound"
    /\ UNCHANGED <<tokenizer_vars, stream_vars, cache_vars, given, interval, val, val_type>>

GetUpperBound ==
    /\ bounded_pc = "constructed"
    /\ bounded_ret' = get_upper_bound(interval)
    /\ bounded_pc' = "get_upper_bound"
    /\ UNCHANGED <<tokenizer_vars, stream_vars, cache_vars, given, interval, val, val_type>>

\* clamp(interval, val), once and once more; bounded_ret keeps the val before
Clamp ==
    /\ bounded_pc \in {"constructed", "clamp"}
    /\ is_closed_interval(interval)
    /\ val' = clamp(interval, val, val_type)
    /\ bounded_ret' = val
    /\ bounded_pc' = IF bounded_pc = "clamp" THEN "clamp_twice" ELSE "clamp"
    /\ UNCHANGED <<tokenizer_vars, stream_vars, cache_vars, given, interval, val_type>>

\* clamping_verifier::verify(val, interval)
Verify ==
    /\ bounded_pc = "constructed"
    /\ is_closed_interval(interval)
    /\ val' = verify(val, interval, val_type)
    /\ bounded_ret' = val
    /\ bounded_pc' = "verify"
    /\ UNCHANGED <<tokenizer_vars, stream_vars, cache_vars, given, interval, val_type>>

BoundedNext ==
    Construct \/ Call \/ GetLowerBound \/ GetUpperBound \/ Clamp \/ Verify

SpecBounded == BoundedInit /\ [][BoundedNext]_vars

\* C15: clamp on a closed interval, for every lower bound, upper bound and
\* val, a lower bound above the upper bound included, leaves val in the
\* interval, lower <= val <= upper: a val in the interval is unchanged, one
\* below the lower bound becomes the lower bound, one above the upper bound
\* the upper bound; clamping_verifier::verify does the same, and clamping a
\* second time changes nothing.
C15_ClampIntoInterval ==
    /\ bounded_pc \in {"clamp", "verify"}
         => /\ interval.Lower <= val /\ val <= interval.Upper
            /\ (interval.Lower <= bounded_ret /\ bounded_ret <= interval.Upper)
                 => val = bounded_ret
            /\ bounded_ret < interval.Lower => val = interval.Lower
            /\ bounded_ret > interval.Upper => val = interval.Upper
    /\ bounded_pc = "clamp_twice" => val = bounded_ret

MaxToks == 3
MaxValues == 2

EOF == ""

TokSigma == {"a", "b", SP, "[", "]", "(", "__attribute__"}

TokStreams(n) == UNION {[1..k -> TokSigma] : k \in 0..n}

\* the literals handed to skip and skip_if_token
Literals == {"a", "b", "(", "[", "__attribute__"}

\* the literal lists handed to skip
ValueLists(n) == UNION {[1..k -> {"a", "b"}] : k \in 0..n}

\* get_value()[0]: the first character of a token's text
front(value) ==
    IF value = EOF THEN NUL ELSE IF value \in {SP, NL} THEN value ELSE "x"

\* token_stream::peek(k).get_value()
peek(s, p, k) == IF p + k <= Len(s) THEN s[p + k] ELSE EOF

\* token_stream::bump(): the position behind the current token
bump(p) == p + 1

\* what a helper leaves: how it ended ("ok", "parse_error" thrown, or
\* "fault" when it consumes behind the end of the input), the position of
\* the current token, the value returned, and the two texts of the error
StreamOut(status, p, value, expected, actual) ==
    [status |-> status, pos |-> p, value |-> value,
     expected |-> expected, actual |-> actual]

RECURSIVE skip_whitespace(_, _)
skip_whitespace(s, p) ==
    IF isspace(front(peek(s, p, 0))) THEN skip_whitespace(s, bump(p)) ELSE p

skip_bumps_first(s, p, value) ==
    StreamOut(IF peek(s, p, 0) # value THEN "parse_error" ELSE "ok", bump(p),
              FALSE, value, peek(s, p, 0))

\* void skip(stream, cur, const char* value)
skip(s, p, value) ==
    LET got == peek(s, p, 0)
    IN  IF got # value
        THEN StreamOut("parse_error", p, FALSE, value, got)
        ELSE StreamOut("ok", bump(p), FALSE, "", "")

\* void skip(stream, cur, std::initializer_list<const char*> values)
RECURSIVE skip_list(_, _, _)
skip_list(s, p, values) ==
    IF values = <<>> THEN StreamOut("ok", p, FALSE, "", "")
    ELSE LET r == skip(s, p, Head(values))
         IN  IF r.status # "ok" THEN r
             ELSE skip_list(s, skip_whitespace(s, r.pos), Tail(values))

skip_if_token_bumps_always(s, p, token) ==
    StreamOut("ok", skip_whitespace(s, bump(p)), peek(s, p, 0) = token, "", "")

\* bool skip_if_token(stream, const char* token)
skip_if_token(s, p, token) ==
    IF peek(s, p, 0) # token THEN StreamOut("ok", p, FALSE, "", "")
    ELSE StreamOut("ok", skip_whitespace(s, bump(p)), TRUE, "", "")

\* skip_bracket_count(stream, cur, open, close), as the specification gives
\* it: open has been consumed, the counter starts at 1, goes up by 1 for a
\* nested open and down by 1 for a close, and the helper stops when it is 0
RECURSIVE bracket_count(_, _, _, _, _)
bracket_count(s, p, opening, closing, count) ==
    IF count = 0 THEN StreamOut("ok", p, FALSE, "", "")
    ELSE IF p > Len(s) THEN StreamOut("fault", p, FALSE, "", "")
    ELSE bracket_count(s, bump(p), opening, closing,
                       IF s[p] = opening THEN count + 1
                       ELSE IF s[p] = closing THEN count - 1 ELSE count)

skip_bracket_count(s, p, opening, closing) ==
    bracket_count(s, p, opening, closing, 1)

\* void skip_attribute(stream, cur)
skip_attribute(s, p) ==
    IF peek(s, p, 0) = "[" /\ peek(s, p, 1) = "["
    THEN LET b == skip_bracket_count(s, bump(p), "[", "]")
         IN  IF b.status # "ok" THEN b
             ELSE IF b.pos > Len(s) THEN StreamOut("fault", b.pos, FALSE, "", "")
             ELSE StreamOut("ok", bump(b.pos), FALSE, "", "")
    ELSE LET i == skip_if_token(s, p, "__attribute__")
         IN  IF ~i.value THEN i
             ELSE LET o == skip(s, i.pos, "(")
                  IN  IF o.status # "ok" THEN o
                      ELSE LET b == skip_bracket_count(s, o.pos, "(", ")")
                           IN  IF b.status # "ok" THEN b
                               ELSE skip(s, b.pos, ")")

StreamExamples ==
    {<<"a", SP, "b">>,
     <<"a", SP, "c">>,
     <<"a", SP, NL, "b", SP, "c">>,
     <<"[", "[", "deprecated", "]", "]", SP, "x">>,
     <<"[", "[", "deprecated", "]", "]", "x">>,
     <<"[", "[", "a", "[", "b", "]", "]", "]", SP, "x">>,
     <<"__attribute__", "(", "(", "x", ")", ")", SP, "x">>,
     <<"__attribute__", SP, "(", "(", "x", ")", ")", "x">>}

\* a stream, consumed up to any of its tokens, and no helper called yet
StreamInit ==
    /\ NoTokenizer
    /\ NoBounded
    /\ NoCache
    /\ stream \in StreamExamples \cup TokStreams(MaxToks)
    /\ stream_pos \in 1..(Len(stream) + 1)
    /\ stream_call = <<>>
    /\ stream_ret = <<>>

\* every helper leaves the tokens as they are and moves the position only
stream_frame == <<tokenizer_vars, bounded_vars, cache_vars, stream>>

\* the helper called, its argument and the position it was called at
StreamCall(op, arg) == [op |-> op, arg |-> arg, from |-> stream_pos]

SkipWhitespace ==
    /\ stream_call = <<>>
    /\ stream_call' = StreamCall("skip_whitespace", <<>>)
    /\ stream_pos' = skip_whitespace(stream, stream_pos)
    /\ stream_ret' = StreamOut("ok", stream_pos', FALSE, "", "")
    /\ UNCHANGED stream_frame

Skip ==
    /\ stream_call = <<>>
    /\ \E value \in Literals :
          /\ stream_call' = StreamCall("skip", value)
          /\ stream_ret' = skip(stream, stream_pos, value)
    /\ stream_pos' = stream_ret'.pos
    /\ UNCHANGED stream_frame

SkipList ==
    /\ stream_call = <<>>
    /\ \E values \in ValueLists(MaxValues) \cup {<<"a", "b", "c">>} :
          /\ stream_call' = StreamCall("skip_list", values)
          /\ stream_ret' = skip_list(stream, stream_pos, values)
    /\ stream_pos' = stream_ret'.pos
    /\ UNCHANGED stream_frame

SkipIfToken ==
    /\ stream_call = <<>>
    /\ \E token \in Literals :
          /\ stream_call' = StreamCall("skip_if_token", token)
          /\ stream_ret' = skip_if_token(stream, stream_pos, token)
    /\ stream_pos' = stream_ret'.pos
    /\ UNCHANGED stream_frame

SkipBracketCount ==
    /\ stream_call = <<>>
    /\ \E pair \in {<<"[", "]">>, <<"(", ")">>} :
          /\ stream_call' = StreamCall("skip_bracket_count", pair)
          /\ stream_ret' = skip_bracket_count(stream, stream_pos, pair[1], pair[2])
    /\ stream_pos' = stream_ret'.pos
    /\ UNCHANGED stream_frame

SkipAttribute ==
    /\ stream_call = <<>>
    /\ stream_call' = StreamCall("skip_attribute", <<>>)
    /\ stream_ret' = skip_attribute(stream, stream_pos)
    /\ stream_pos' = stream_ret'.pos
    /\ UNCHANGED stream_frame

StreamNext ==
    \/ SkipWhitespace
    \/ Skip
    \/ SkipList
    \/ SkipIfToken
    \/ SkipBracketCount
    \/ SkipAttribute

SpecStream == StreamInit /\ [][StreamNext]_vars

(***************************************************************************)
(* Properties of the token stream helpers.                                 *)
(***************************************************************************)
Whitespace(token) == token \in {SP, NL}

\* the first position from p on that holds no white-space token
NonSpace(s, p) ==
    IF p > Len(s) THEN p
    ELSE CHOOSE q \in p..(Len(s) + 1) :
             /\ q = Len(s) + 1 \/ ~Whitespace(s[q])
             /\ \A r \in p..(q - 1) : Whitespace(s[r])

\* the position at which the i-th literal of a list is compared when the
\* literals before it matched
RECURSIVE At(_, _, _)
At(s, from, i) == IF i = 1 THEN from ELSE NonSpace(s, At(s, from, i - 1) + 1)

\* the first literal of the list that differs from the token it is compared
\* with, 0 when every literal matches
Mismatch(s, from, values) ==
    LET differs == {i \in 1..Len(values) :
                       /\ peek(s, At(s, from, i), 0) # values[i]
                       /\ \A j \in 1..(i - 1) :
                              peek(s, At(s, from, j), 0) = values[j]}
    IN  IF differs = {} THEN 0 ELSE CHOOSE i \in differs : TRUE

Helped(op) == stream_call # <<>> /\ stream_call.op = op

\* C11: skip with a list of literals compares each literal in turn, white
\* space skipped behind each match: over a, white space, b the list {a, b} is
\* consumed whole; over a, white space, c it throws the error that expected b
\* and got c.  The first literal that differs from the current token throws
\* the error with that literal and that token's text, the token is not
\* consumed and no later literal is compared.
C11_SkipListStopsAtFirstMismatch ==
    Helped("skip_list")
        => LET values == stream_call.arg
               from == stream_call.from
               k == Mismatch(stream, from, values)
           IN  /\ k = 0
                    => /\ stream_ret.status = "ok"
                       /\ stream_pos
                            = IF values = <<>> THEN from
                              ELSE NonSpace(stream,
                                            At(stream, from, Len(values)) + 1)
               /\ k # 0
                    => /\ stream_ret.status = "parse_error"
                       /\ stream_ret.expected = values[k]
                       /\ stream_ret.actual = peek(stream, At(stream, from, k), 0)
                       /\ stream_pos = At(stream, from, k)
               /\ (stream = <<"a", SP, "b">> /\ from = 1 /\ values = <<"a", "b">>)
                    => stream_ret.status = "ok" /\ stream_pos = 4
               /\ (stream = <<"a", SP, "c">> /\ from = 1 /\ values = <<"a", "b">>)
                    => /\ stream_ret.status = "parse_error"
                       /\ stream_ret.expected = "b"
                       /\ stream_ret.actual = "c"
                       /\ stream_pos = 3

\* reached: over a, white space, c the list {a, b} has thrown at c
C11_Witness_GotC ==
    /\ Helped("skip_list")
    /\ stream = <<"a", SP, "c">>
    /\ stream_call.arg = <<"a", "b">>
    /\ stream_call.from = 1
    /\ stream_ret.status = "parse_error"
    /\ stream_ret.actual = "c"
    /\ stream_pos = 3

\* C12: skip_if_token consumes and returns true only on a match: when the
\* current token is the literal it consumes that token (and the white space
\* behind it) and returns true; when it is not, it returns false and leaves
\* the stream as it was, the position and every token.
C12_SkipIfTokenOnlyOnMatch ==
    [][ (stream_call = <<>> /\ stream_call' # <<>>
            /\ stream_call'.op = "skip_if_token")
          => /\ stream' = stream
             /\ IF peek(stream, stream_pos, 0) = stream_call'.arg
                THEN /\ stream_ret'.value = TRUE
                     /\ stream_ret'.status = "ok"
                     /\ stream_pos' = NonSpace(stream, stream_pos + 1)
                ELSE /\ stream_ret'.value = FALSE
                     /\ stream_ret'.status = "ok"
                     /\ stream_pos' = stream_pos ]_vars

\* reached: skip_if_token has matched a token with white space behind it
C12_Witness_Matched ==
    /\ Helped("skip_if_token")
    /\ stream_ret.value = TRUE
    /\ stream[stream_call.from] = stream_call.arg
    /\ stream_pos = stream_call.from + 2
    /\ Whitespace(stream[stream_call.from + 1])

\* the position of the closing token that matches the opening token at i,
\* 0 when there is none
MatchClose(s, i, opening, closing) ==
    LET balanced == {j \in (i + 1)..Len(s) :
                        Cardinality({n \in i..j : s[n] = opening})
                            = Cardinality({n \in i..j : s[n] = closing})}
    IN  IF balanced = {} THEN 0
        ELSE CHOOSE j \in balanced : \A n \in balanced : j <= n

\* just behind position q, or at the first token behind the white space there
Behind(s, q) == {q + 1, NonSpace(s, q + 1)}

\* C13: skip_bracket_count with [ and ], called when the two [ of a double
\* bracket attribute have been consumed, consumes through the matching ]] and
\* leaves the stream behind it (over [[deprecated]] x: at x); skip_attribute,
\* on a stream that starts with a double bracket attribute, consumes the
\* attribute's tokens through its closing ]] and no other, and leaves a
\* stream that starts with neither [[ nor __attribute__ as it was.
C13_AttributeSkippedExactly ==
    LET from == stream_call.from
        double(i) == peek(stream, i, 0) = "[" /\ peek(stream, i, 1) = "["
    IN  /\ ( /\ Helped("skip_bracket_count")
             /\ stream_call.arg = <<"[", "]">>
             /\ from >= 3
             /\ double(from - 2)
             /\ MatchClose(stream, from - 2, "[", "]") # 0 )
               => /\ stream_ret.status = "ok"
                  /\ stream_pos
                       \in Behind(stream, MatchClose(stream, from - 2, "[", "]"))
        /\ ( /\ Helped("skip_attribute")
             /\ double(from)
             /\ MatchClose(stream, from, "[", "]") # 0 )
               => /\ stream_ret.status = "ok"
                  /\ stream_pos
                       \in Behind(stream, MatchClose(stream, from, "[", "]"))
        /\ ( /\ Helped("skip_attribute")
             /\ ~double(from)
             /\ peek(stream, from, 0) # "__attribute__" )
               => /\ stream_ret.status = "ok"
                  /\ stream_pos = from

(***************************************************************************)
(* The source buffer cache, get(file_key), as the specification describes  *)
(* it: a caller returns the cached buffer of the key or, under the key's   *)
(* initialization guard, loads the file and caches the buffer.  An         *)
(* unreadable file fails the caller with an I/O error and caches nothing.  *)
(* A buffer is its text and the number of the load that made it.           *)
(***************************************************************************)
NumCallers == 2
MaxGets == 2

Callers == 1..NumCallers
Keys == {"a.cpp", "b.cpp", "missing.cpp"}

\* the text of the file behind a key
Disk(k) == IF k = "a.cpp" THEN <<"a">> ELSE <<"b">>
Readable(k) == k # "missing.cpp"

NoBuffer == [text |-> <<>>, load |-> 0]
NoHolder == 0

IdleCaller == [pc |-> "idle", key |-> "a.cpp", buf |-> NoBuffer,
               got |-> NoBuffer, status |-> "none", gets |-> 0]

may_enter_unguarded(k) == TRUE

\* the per-key initialization guard is free
may_enter(k) == guard[k] = NoHolder

CacheInit ==
    /\ NoTokenizer
    /\ NoBounded
    /\ NoStream
    /\ cache = [k \in Keys |-> NoBuffer]
    /\ guard = [k \in Keys |-> NoHolder]
    /\ loads = [k \in Keys |-> 0]
    /\ caller = [c \in Callers |-> IdleCaller]

cache_frame == <<tokenizer_vars, bounded_vars, stream_vars>>

\* a caller calls get(file_key)
Get(c) ==
    /\ caller[c].pc = "idle"
    /\ caller[c].gets < MaxGets
    /\ \E k \in Keys :
          caller' = [caller EXCEPT ![c] =
                        [pc |-> "check", key |-> k, buf |-> NoBuffer,
                         got |-> NoBuffer, status |-> "none",
                         gets |-> caller[c].gets + 1]]
    /\ UNCHANGED <<cache_frame, cache, guard, loads>>

\* the key is cached: get returns the cached buffer
Hit(c) ==
    /\ caller[c].pc = "check"
    /\ cache[caller[c].key] # NoBuffer
    /\ caller' = [caller EXCEPT ![c].pc = "idle", ![c].status = "ok",
                                ![c].got = cache[caller[c].key]]
    /\ UNCHANGED <<cache_frame, cache, guard, loads>>

\* the key is not cached: the caller goes for the key's guard
Miss(c) ==
    /\ caller[c].pc = "check"
    /\ cache[caller[c].key] = NoBuffer
    /\ caller' = [caller EXCEPT ![c].pc = "enter"]
    /\ UNCHANGED <<cache_frame, cache, guard, loads>>

\* the caller takes the key's guard
Enter(c) ==
    /\ caller[c].pc = "enter"
    /\ may_enter(caller[c].key)
    /\ guard' = [guard EXCEPT ![caller[c].key] = c]
    /\ caller' = [caller EXCEPT ![c].pc = "recheck"]
    /\ UNCHANGED <<cache_frame, cache, loads>>

\* under the guard: another caller has cached the key meanwhile, or not
Recheck(c) ==
    /\ caller[c].pc = "recheck"
    /\ IF cache[caller[c].key] # NoBuffer
       THEN /\ caller' = [caller EXCEPT ![c].pc = "idle", ![c].status = "ok",
                                        ![c].got = cache[caller[c].key]]
            /\ guard' = [guard EXCEPT ![caller[c].key] = NoHolder]
       ELSE /\ caller' = [caller EXCEPT ![c].pc = "load"]
            /\ UNCHANGED guard
    /\ UNCHANGED <<cache_frame, cache, loads>>

\* the file is read: a new buffer, or the I/O error that get passes on
Load(c) ==
    /\ caller[c].pc = "load"
    /\ LET k == caller[c].key
       IN  IF Readable(k)
           THEN /\ loads' = [loads EXCEPT ![k] = loads[k] + 1]
                /\ caller' = [caller EXCEPT ![c].pc = "store",
                                 ![c].buf = [text |-> Disk(k),
                                             load |-> loads[k] + 1]]
                /\ UNCHANGED guard
           ELSE /\ caller' = [caller EXCEPT ![c].pc = "idle",
                                            ![c].status = "io_error"]
                /\ guard' = [guard EXCEPT ![k] = NoHolder]
                /\ UNCHANGED loads
    /\ UNCHANGED <<cache_frame, cache>>

\* the buffer is cached and returned, the guard given up
Store(c) ==
    /\ caller[c].pc = "store"
    /\ cache' = [cache EXCEPT ![caller[c].key] = caller[c].buf]
    /\ guard' = [guard EXCEPT ![caller[c].key] = NoHolder]
    /\ caller' = [caller EXCEPT ![c].pc = "idle", ![c].status = "ok",
                                ![c].got = caller[c].buf]
    /\ UNCHANGED <<cache_frame, loads>>

CacheNext ==
    \E c \in Callers :
        \/ Get(c)
        \/ Hit(c)
        \/ Miss(c)
        \/ Enter(c)
        \/ Recheck(c)
        \/ Load(c)
        \/ Store(c)

SpecCache == CacheInit /\ [][CacheNext]_vars

Loading(c) == caller[c].pc \in {"load", "store"}
Succeeded(c) == caller[c].pc = "idle" /\ caller[c].status = "ok"

\* at most one load per key; no two callers load the same key at once; the
\* callers that succeeded for a key hold the one buffer cached for it
LoadOnce ==
    /\ \A k \in Keys : loads[k] <= 1
    /\ \A c, d \in Callers :
          (c # d /\ Loading(c) /\ Loading(d)) => caller[c].key # caller[d].key
    /\ \A c \in Callers :
          Succeeded(c) => /\ caller[c].got = cache[caller[c].key]
                          /\ caller[c].got.text = Disk(caller[c].key)
    /\ \A c, d \in Callers :
          (Succeeded(c) /\ Succeeded(d) /\ caller[c].key = caller[d].key)
              => caller[c].got = caller[d].got

\* a cached buffer stays as it is and its file is not loaded again
CachedForGood ==
    \A k \in Keys :
        cache[k] # NoBuffer => cache'[k] = cache[k] /\ loads'[k] = loads[k]

\* C14: the buffer cache loads each file key at most once in a session,
\* however the steps of concurrent callers of get interleave: two callers of
\* one uncached key never both load it, every caller that succeeds gets the
\* same buffer, and a cached buffer is neither changed nor loaded again.
C14_LoadOncePerKey == []LoadOnce /\ [][CachedForGood]_vars

\* reached: one caller loads a key while another waits for that key's guard
C14_Witness_Contended ==
    \E c, d \in Callers :
        /\ c # d
        /\ caller[c].key = caller[d].key
        /\ caller[c].pc = "load"
        /\ caller[d].pc = "enter"
        /\ guard[caller[c].key] = c

====
